---- MODULE Spec2Model ----
(***************************************************************************)
(* Model of tap-google-sheets-range: the run of sync() (sync.py) and the   *)
(* row-window generator SheetData.sync (streams.py).                       *)
(*                                                                         *)
(* Python dicts are functions whose DOMAIN is the set of keys present.     *)
(* A time string is a record [t, fmt]: t is the instant, fmt the textual   *)
(* layout ("cfg" as typed in the configuration, "api" as the Drive API     *)
(* renders modifiedTime, "singer" as singer.utils.strftime renders it), so *)
(* strftime(strptime_to_utc(s)) is s only when s is already in "singer"    *)
(* layout.                                                                 *)
(***************************************************************************)
EXTENDS Integers, Sequences, FiniteSets, TLC

\* ---------------------------------------------------------------- bounds
MaxTime == 2
MaxRow == 4
MaxBatch == 3
MaxLetters == 2
MaxHeaders == 2

\* ------------------------------------------------------- program constants
DefaultBatchSize == 300

VARIABLES
    pc,               \* position of sync(): start, file_metadata, check, sync_stream, sheets, returned, raised
    branch,           \* "none", "short" (line 163 taken) or "full" (line 163 not taken)
    state,            \* the singer state dict handed to sync()
    state0,           \* its value when sync() was called
    out,              \* messages written to the target, in order
    fetches,          \* transport calls issued by the run, in order
    start_date,       \* config.start_date
    sheets,           \* config.list_sheets(), in configuration order
    selected_streams, \* streams the catalog selects
    modifiedTime,     \* what the Drive API answers for the file
    file_mtime,       \* local of sync(), line 157
    synced            \* sheets whose loop iteration reached line 214

syncVars == <<pc, branch, state, state0, out, fetches, start_date, sheets,
              selected_streams, modifiedTime, file_mtime, synced>>

VARIABLES
    ppc,              \* position of SheetData.sync: start, schema, loop, transform, done, raised
    cfg_first_row,    \* Config.get_row
    cfg_last_row,     \* Config.get_last_row (0 stands for None)
    cfg_batch_size,   \* the batch_size given to Config.__init__ (0 stands for None)
    sheet_max_row,    \* gridProperties.rowCount of the metadata answer
    row_data_empty,   \* the metadata answer has no rowData
    sheet_metadata_cache, \* Sheet.sheet_metadata_cache: title -> sheet metadata
    last_row_index, batch_size, from_row, to_row, columns,  \* locals of SheetData.sync
    windows,          \* row windows fetched so far, in order
    meta_fetches      \* titles of the metadata fetches issued by get_sheet_metadata, in order

pageVars == <<ppc, cfg_first_row, cfg_last_row, cfg_batch_size, sheet_max_row,
              row_data_empty, sheet_metadata_cache, last_row_index, batch_size,
              from_row, to_row, columns, windows, meta_fetches>>

VARIABLES
    call_pc,          \* position of a function called on its own: idle, called, returned, raised
    arg,              \* its arguments
    result            \* what it returned, or the exception it raised

callVars == <<call_pc, arg, result>>

vars == <<syncVars, pageVars, callVars>>

\* ------------------------------------------------------------ dict helpers
EmptyDict == [k \in {} |-> 0]
Has(d, k) == k \in DOMAIN d
Get(d, k, default) == IF k \in DOMAIN d THEN d[k] ELSE default
Put(d, k, v) == [x \in (DOMAIN d) \cup {k} |-> IF x = k THEN v ELSE d[x]]
Del(d, k) == [x \in (DOMAIN d) \ {k} |-> d[x]]

Min(a, b) == IF a <= b THEN a ELSE b
Range(seq) == { seq[i] : i \in 1..Len(seq) }

\* ------------------------------------------------------------ time strings
Times == 0..MaxTime
strptime_to_utc(s) == s.t
strftime(t) == [t |-> t, fmt |-> "singer"]

\* --------------------------------------------------------------- streams.py
\* The registry at the end of streams.py; "None" is what dict.get answers
\* for a key that is not in it.
STREAMS == [file_metadata |-> "FileMetadata",
            sheet_metadata |-> "SheetMetadata",
            sheet_data |-> "SheetData"]
STREAMS_get(key) == Get(STREAMS, key, "None")

\* ------------------------------------------------------------------ sync.py
StateMessage(st) == [type |-> "STATE", stream |-> "", value |-> st]
SchemaMessage(stream) == [type |-> "SCHEMA", stream |-> stream, value |-> EmptyDict]
RecordMessage(stream) == [type |-> "RECORD", stream |-> stream, value |-> EmptyDict]

get_bookmark(st, stream, default) ==
    IF ~Has(st, "bookmarks") THEN default
    ELSE Get(st["bookmarks"], stream, default)

\* the dict that write_bookmark leaves in `state` (it then writes it out)
write_bookmark(st, stream, value) ==
    LET st1 == IF ~Has(st, "bookmarks") THEN Put(st, "bookmarks", EmptyDict) ELSE st
    IN  Put(st1, "bookmarks", Put(st1["bookmarks"], stream, value))

\* update_currently_syncing building a new dict instead of changing `state`
update_currently_syncing_fresh(st, stream_name) ==
    IF stream_name = "None" THEN EmptyDict
    ELSE Put(EmptyDict, "currently_syncing", stream_name)

\* the dict that update_currently_syncing leaves in `state`; "None" is None
update_currently_syncing(st, stream_name) ==
    IF stream_name = "None" /\ Has(st, "currently_syncing")
    THEN Del(st, "currently_syncing")
    ELSE Put(st, "currently_syncing", stream_name)

\* the test of line 163 with < in place of <=
FileNotChangedStrict(mtime, last_mtime) == mtime < last_mtime

\* the test of line 163
FileNotChanged(mtime, last_mtime) == mtime <= last_mtime

\* what sync_stream (lines 119-135) leaves in `state`
sync_stream_state(st, stream_name, selected) ==
    IF stream_name \in selected
    THEN update_currently_syncing(update_currently_syncing(st, stream_name), "None")
    ELSE st

\* what sync_stream writes to the target, in order
sync_stream_out(st, stream_name, selected) ==
    IF stream_name \in selected
    THEN << StateMessage(update_currently_syncing(st, stream_name)),
            SchemaMessage(stream_name),
            RecordMessage(stream_name),
            StateMessage(sync_stream_state(st, stream_name, selected)) >>
    ELSE << >>

\* SheetData.__init__, lines 321-322: the stream name of a sheet
SheetStream(title) == title \o "_id"

SheetTitles == {"A", "B"}
StreamNames == {"file_metadata"} \cup {SheetStream(t) : t \in SheetTitles}

\* Config.load_sheet_config rejects an empty sheet mapping
SheetLists == {<<"A">>, <<"A", "B">>, <<"B", "A">>}

\* states a run can be handed: none, or one written by an earlier run
InitBookmarks ==
    { EmptyDict } \cup
    { Put(EmptyDict, "file_metadata", strftime(t)) : t \in Times } \cup
    { Put(EmptyDict, SheetStream("A"), 1) } \cup
    { Put(Put(EmptyDict, "file_metadata", strftime(t)), SheetStream("A"), 1) : t \in Times }

InitStates ==
    LET withBm == { EmptyDict } \cup { Put(EmptyDict, "bookmarks", b) : b \in InitBookmarks }
    IN  withBm \cup { Put(s, "currently_syncing", n) : s \in withBm, n \in StreamNames }

PageIdle ==
    /\ ppc = "idle"
    /\ cfg_first_row = 1 /\ cfg_last_row = 0 /\ cfg_batch_size = 0
    /\ sheet_max_row = 1 /\ row_data_empty = FALSE
    /\ sheet_metadata_cache = EmptyDict
    /\ last_row_index = 0 /\ batch_size = 0 /\ from_row = 0 /\ to_row = 0
    /\ columns = "unset" /\ windows = << >> /\ meta_fetches = << >>

CallIdle ==
    /\ call_pc = "idle" /\ arg = << >> /\ result = << >>

Init ==
    /\ pc = "start"
    /\ branch = "none"
    /\ state \in InitStates
    /\ state0 = state
    /\ out = << >>
    /\ fetches = << >>
    /\ start_date \in { [t |-> t, fmt |-> "cfg"] : t \in Times }
    /\ sheets \in SheetLists
    /\ selected_streams \in SUBSET StreamNames
    /\ modifiedTime \in { [t |-> t, fmt |-> "api"] : t \in Times }
    /\ file_mtime = -1
    /\ synced = << >>
    /\ PageIdle
    /\ CallIdle

\* lines 141-149: nothing selected, nothing done
SyncStart ==
    /\ pc = "start"
    /\ pc' = IF selected_streams = {} THEN "returned" ELSE "file_metadata"
    /\ UNCHANGED <<branch, state, state0, out, fetches, start_date, sheets,
                   selected_streams, modifiedTime, file_mtime, synced>>
    /\ UNCHANGED pageVars
    /\ UNCHANGED callVars

\* lines 152-157: FileMetadata.sync answers
FileMetadataSync ==
    /\ pc = "file_metadata"
    /\ STREAMS_get("file_metadata") = "FileMetadata"
    /\ fetches' = Append(fetches, "files")
    /\ file_mtime' = strptime_to_utc(modifiedTime)
    /\ pc' = "check"
    /\ UNCHANGED <<branch, state, state0, out, start_date, sheets,
                   selected_streams, modifiedTime, synced>>
    /\ UNCHANGED pageVars
    /\ UNCHANGED callVars

\* line 156: the transport raises
FileMetadataSyncFails ==
    /\ pc = "file_metadata"
    /\ STREAMS_get("file_metadata") = "FileMetadata"
    /\ fetches' = Append(fetches, "files")
    /\ pc' = "raised"
    /\ UNCHANGED <<branch, state, state0, out, start_date, sheets,
                   selected_streams, modifiedTime, file_mtime, synced>>
    /\ UNCHANGED pageVars
    /\ UNCHANGED callVars

\* lines 159-166
CheckFileChanged ==
    /\ pc = "check"
    /\ LET last_mtime == strptime_to_utc(get_bookmark(state, "file_metadata", start_date))
       IN  IF FileNotChanged(file_mtime, last_mtime)
           THEN /\ state' = write_bookmark(state, "file_metadata", strftime(file_mtime))
                /\ out' = Append(out, StateMessage(state'))
                /\ branch' = "short"
                /\ pc' = "returned"
           ELSE /\ branch' = "full"
                /\ pc' = "sync_stream"
                /\ UNCHANGED <<state, out>>
    /\ UNCHANGED <<state0, fetches, start_date, sheets, selected_streams,
                   modifiedTime, file_mtime, synced>>
    /\ UNCHANGED pageVars
    /\ UNCHANGED callVars

\* line 169: sync_stream for file_metadata
SyncStreamFileMetadata ==
    /\ pc = "sync_stream"
    /\ state' = sync_stream_state(state, "file_metadata", selected_streams)
    /\ out' = out \o sync_stream_out(state, "file_metadata", selected_streams)
    /\ pc' = "sheets"
    /\ UNCHANGED <<branch, state0, fetches, start_date, sheets, selected_streams,
                   modifiedTime, file_mtime, synced>>
    /\ UNCHANGED pageVars
    /\ UNCHANGED callVars

\* lines 171-175, first iteration: STREAMS.get('sheet') is None and calling
\* it raises TypeError before anything of the sheet is written
SheetLoopRaises ==
    /\ pc = "sheets"
    /\ Len(synced) < Len(sheets)
    /\ STREAMS_get("sheet") = "None"
    /\ pc' = "raised"
    /\ UNCHANGED <<branch, state, state0, out, fetches, start_date, sheets,
                   selected_streams, modifiedTime, file_mtime, synced>>
    /\ UNCHANGED pageVars
    /\ UNCHANGED callVars

Next ==
    \/ SyncStart
    \/ FileMetadataSync
    \/ FileMetadataSyncFails
    \/ CheckFileChanged
    \/ SyncStreamFileMetadata
    \/ SheetLoopRaises

Spec == Init /\ [][Next]_vars

\* ------------------------------------------------- streams.py, SheetData.sync
SyncIdle ==
    /\ pc = "idle" /\ branch = "none"
    /\ state = EmptyDict /\ state0 = EmptyDict
    /\ out = << >> /\ fetches = << >>
    /\ start_date = [t |-> 0, fmt |-> "cfg"]
    /\ sheets = <<"A">>
    /\ selected_streams = {}
    /\ modifiedTime = [t |-> 0, fmt |-> "api"]
    /\ file_mtime = -1
    /\ synced = << >>

\* Config.__init__, line 76: None and 0 both become the default
ConfigBatchSize(given) == IF given = 0 THEN DefaultBatchSize ELSE given

\* lines 477-478; 0 stands for a range without a last row number
LastRowIndex(last, max_row) == Min(IF last = 0 THEN max_row ELSE last, max_row)

\* line 488
FirstToRow(last, batch) == Min(last, batch)

\* lines 118-121: the sheet of the metadata response for the range of `title`
SheetsResponse(title, rowCount) == [title |-> title, rowCount |-> rowCount]

\* get_sheet_metadata with the store of line 123 left out
get_sheet_metadata_no_store(cache, title, response) ==
    IF Has(cache, title)
    THEN [sheet_metadata |-> cache[title], cache |-> cache, fetched |-> FALSE]
    ELSE [sheet_metadata |-> response, cache |-> cache, fetched |-> TRUE]

\* lines 102-124: self.sheet_metadata_cache (line 103) and
\* SheetMetadata.sheet_metadata_cache (line 123) are both the dict of line 96,
\* which no class or object rebinds; `response` is what the fetch would give
get_sheet_metadata(cache, title, response) ==
    IF Has(cache, title)
    THEN [sheet_metadata |-> cache[title], cache |-> cache, fetched |-> FALSE]
    ELSE [sheet_metadata |-> response, cache |-> Put(cache, title, response), fetched |-> TRUE]

\* line 494
LoopCondition(from, to, last) == from < last /\ to <= last

\* Config (utils.py, lines 68-166) defines list_sheet_headers and no
\* get_sheet_headers: the attribute lookup of line 136 raises AttributeError
ConfigAttributes == {"load_sheet_config", "list_sheets", "get_sheet_cell_range",
                     "is_link", "list_sheet_headers", "get_sheet_target_table",
                     "get_column", "get_row", "get_last_column", "get_last_row",
                     "check_config"}

\* get_sheet_columns_schema, lines 126-136, as far as SheetData.sync sees it:
\* "None" for a sheet without rowData, "AttributeError" otherwise
get_sheet_columns_schema(empty) ==
    IF empty THEN "None"
    ELSE IF "get_sheet_headers" \in ConfigAttributes THEN "columns"
    ELSE "AttributeError"

\* transform_data, line 341: sorted(None) raises TypeError
transform_data_raises(cols) == cols = "None"

\* (first row, last row, rowCount, batch_size) of the configurations explored
PageInputs ==
    ((1..MaxRow) \X (0..MaxRow) \X (1..MaxRow) \X (-1..MaxBatch))
    \cup {<<2, 1000, 1000, 300>>, <<2, 1000, 1000, 0>>}

InitPaging ==
    /\ SyncIdle
    /\ CallIdle
    /\ ppc = "start"
    /\ \E i \in PageInputs :
          /\ cfg_first_row = i[1]
          /\ cfg_last_row = i[2]
          /\ sheet_max_row = i[3]
          /\ cfg_batch_size = i[4]
    /\ row_data_empty \in BOOLEAN
    /\ sheet_metadata_cache = EmptyDict
    /\ last_row_index = 0 /\ batch_size = 0 /\ from_row = 0 /\ to_row = 0
    /\ columns = "unset" /\ windows = << >> /\ meta_fetches = << >>

\* lines 470-481: get_sheet_metadata (lines 102-124) and the row span
SheetDataSyncMetadata ==
    /\ ppc = "start"
    /\ LET m == get_sheet_metadata(sheet_metadata_cache, "A", SheetsResponse("A", sheet_max_row))
       IN  /\ sheet_metadata_cache' = m.cache
           /\ meta_fetches' = IF m.fetched THEN Append(meta_fetches, "A") ELSE meta_fetches
           /\ last_row_index' = LastRowIndex(cfg_last_row, m.sheet_metadata.rowCount)
    /\ ppc' = "schema"
    /\ UNCHANGED <<cfg_first_row, cfg_last_row, cfg_batch_size, sheet_max_row,
                   row_data_empty, batch_size, from_row, to_row, columns, windows>>
    /\ UNCHANGED syncVars
    /\ UNCHANGED callVars

\* lines 483-488: the schema call, then the first window
SheetDataSyncSchema ==
    /\ ppc = "schema"
    /\ LET r == get_sheet_columns_schema(row_data_empty)
       IN  IF r = "AttributeError"
           THEN /\ ppc' = "raised"
                /\ UNCHANGED <<batch_size, from_row, to_row, columns>>
           ELSE /\ columns' = r
                /\ batch_size' = ConfigBatchSize(cfg_batch_size)
                /\ from_row' = cfg_first_row
                /\ to_row' = FirstToRow(last_row_index, ConfigBatchSize(cfg_batch_size))
                /\ ppc' = "loop"
    /\ UNCHANGED <<cfg_first_row, cfg_last_row, cfg_batch_size, sheet_max_row,
                   row_data_empty, sheet_metadata_cache, last_row_index, windows,
                   meta_fetches>>
    /\ UNCHANGED syncVars
    /\ UNCHANGED callVars

\* lines 494-507: one more window is fetched
SheetDataSyncFetch ==
    /\ ppc = "loop"
    /\ LoopCondition(from_row, to_row, last_row_index)
    /\ windows' = Append(windows, [from |-> from_row, to |-> to_row])
    /\ ppc' = "transform"
    /\ UNCHANGED <<cfg_first_row, cfg_last_row, cfg_batch_size, sheet_max_row,
                   row_data_empty, sheet_metadata_cache, last_row_index, batch_size,
                   from_row, to_row, columns, meta_fetches>>
    /\ UNCHANGED syncVars
    /\ UNCHANGED callVars

\* line 494 is false: the generator is exhausted
SheetDataSyncDone ==
    /\ ppc = "loop"
    /\ ~LoopCondition(from_row, to_row, last_row_index)
    /\ ppc' = "done"
    /\ UNCHANGED <<cfg_first_row, cfg_last_row, cfg_batch_size, sheet_max_row,
                   row_data_empty, sheet_metadata_cache, last_row_index, batch_size,
                   from_row, to_row, columns, windows, meta_fetches>>
    /\ UNCHANGED syncVars
    /\ UNCHANGED callVars

\* lines 510-517: transform_data is handed columns = None and raises before
\* lines 520-523 run
SheetDataSyncTransformRaises ==
    /\ ppc = "transform"
    /\ transform_data_raises(columns)
    /\ ppc' = "raised"
    /\ UNCHANGED <<cfg_first_row, cfg_last_row, cfg_batch_size, sheet_max_row,
                   row_data_empty, sheet_metadata_cache, last_row_index, batch_size,
                   from_row, to_row, columns, windows, meta_fetches>>
    /\ UNCHANGED syncVars
    /\ UNCHANGED callVars

NextPaging ==
    \/ SheetDataSyncMetadata
    \/ SheetDataSyncSchema
    \/ SheetDataSyncFetch
    \/ SheetDataSyncDone
    \/ SheetDataSyncTransformRaises

SpecPaging == InitPaging /\ [][NextPaging]_vars

\* ------------------------------------------- utils.py, column letters
\* A column string is the sequence of the character codes of its letters.
Letters == 65..90
ColumnStrings ==
    { <<a>> : a \in Letters } \cup (Letters \X Letters) \cup (Letters \X Letters \X Letters)

\* col_string_to_num, lines 34-43 (the argument is upper case already)
col_string_to_num(col) ==
    IF Len(col) = 1 THEN col[1] % 64
    ELSE IF Len(col) = 2 THEN 26 + (col[1] % 64) * (col[2] % 64)
    ELSE IF Len(col) = 3
         THEN 26 + 26 * 26 + (col[1] % 64) * (col[2] % 64) * (col[3] % 64)
    ELSE -1

\* col_num_to_string, lines 47-52
RECURSIVE col_num_to_string_loop(_, _)
col_num_to_string_loop(num, string) ==
    IF num > 0
    THEN col_num_to_string_loop((num - 1) \div 26, <<65 + ((num - 1) % 26)>> \o string)
    ELSE string
col_num_to_string(num) == col_num_to_string_loop(num, << >>)

InitColumns ==
    /\ SyncIdle
    /\ PageIdle
    /\ call_pc = "called"
    /\ arg \in ColumnStrings
    /\ result = << >>

\* col_num_to_string(col_string_to_num(arg))
ColumnRoundTrip ==
    /\ call_pc = "called"
    /\ result' = [num |-> col_string_to_num(arg),
                  string |-> col_num_to_string(col_string_to_num(arg))]
    /\ call_pc' = "returned"
    /\ UNCHANGED arg
    /\ UNCHANGED <<syncVars, pageVars>>

NextColumns == ColumnRoundTrip

SpecColumns == InitColumns /\ [][NextColumns]_vars

\* ------------------------------------------------ utils.py, Config.check_config
\* A sheet configuration is [headers, data]: headers the sequence of header
\* names, data the range [kind, first, last]: kind is "empty" (no range),
\* "nomatch" (not matched by the pattern of line 149) or "range", and then
\* first and last are the column strings that get_column and get_last_column
\* find in it.
HeaderNames == {"h1", "h2"}
HeaderLists == UNION { [1..n -> HeaderNames] : n \in 1..MaxHeaders }

SampleLetters == 65..(64 + MaxLetters)
SampleColumns ==
    { <<a>> : a \in SampleLetters } \cup (SampleLetters \X SampleLetters)
    \cup (SampleLetters \X SampleLetters \X SampleLetters)
SampleRanges ==
    { [kind |-> k, first |-> << >>, last |-> << >>] : k \in {"empty", "nomatch"} }
    \cup { [kind |-> "range", first |-> f, last |-> l] : f \in SampleColumns, l \in SampleColumns }
SheetConfigs == { [headers |-> h, data |-> d] : h \in HeaderLists, d \in SampleRanges }

\* lines 145-166 for one sheet: "ok" or the ValueError raised
check_sheet(sheet, null_values) ==
    IF Len(sheet.headers) = 0 THEN "ValueError: Header list is empty"
    ELSE IF sheet.data.kind = "empty" THEN "ValueError: Range is empty"
    ELSE IF sheet.data.kind = "nomatch" THEN "ValueError: Range doesn't match to the pattern"
    ELSE LET cols_count == col_string_to_num(sheet.data.last)
                             - col_string_to_num(sheet.data.first) + 1
             headers_count == Len(sheet.headers)
         IN  IF headers_count # cols_count
             THEN "ValueError: Columns count doesn't equal to headers count"
             ELSE IF Len(sheet.headers) # Cardinality(Range(sheet.headers))
             THEN "ValueError: Found duplicate header"
             ELSE IF null_values # "list"
             THEN "ValueError: null_values is not a list"
             ELSE "ok"

\* check_config, lines 143-166: the sheets in order, the first error raised
RECURSIVE check_config(_, _)
check_config(sheet_list, null_values) ==
    IF sheet_list = << >> THEN "ok"
    ELSE LET r == check_sheet(Head(sheet_list), null_values)
         IN  IF r # "ok" THEN r ELSE check_config(Tail(sheet_list), null_values)

\* a sheet check_config accepts: range A:B with the two headers h1, h2
ValidSheet == [headers |-> <<"h1", "h2">>, data |-> [kind |-> "range", first |-> <<65>>, last |-> <<66>>]]

InitConfig ==
    /\ SyncIdle
    /\ PageIdle
    /\ call_pc = "called"
    /\ \E sc \in SheetConfigs, nv \in {"list", "other"} :
          arg \in { [sheets |-> <<sc>>, null_values |-> nv],
                    [sheets |-> <<ValidSheet, sc>>, null_values |-> nv] }
    /\ result = << >>

\* Config.check_config returns
CheckConfigAccepts ==
    /\ call_pc = "called"
    /\ check_config(arg.sheets, arg.null_values) = "ok"
    /\ result' = "ok"
    /\ call_pc' = "returned"
    /\ UNCHANGED arg
    /\ UNCHANGED <<syncVars, pageVars>>

\* Config.check_config raises
CheckConfigRejects ==
    /\ call_pc = "called"
    /\ check_config(arg.sheets, arg.null_values) # "ok"
    /\ result' = check_config(arg.sheets, arg.null_values)
    /\ call_pc' = "raised"
    /\ UNCHANGED arg
    /\ UNCHANGED <<syncVars, pageVars>>

NextConfig ==
    \/ CheckConfigAccepts
    \/ CheckConfigRejects

SpecConfig == InitConfig /\ [][NextConfig]_vars

\* --------------------------------- streams.py, SheetData.transform_data
\* A raw cell value is [kind, v]: kind the Python type (none, str, bool, int,
\* float), v what str() gives for it.  A coerced value is [kind, v] with kind
\* null, str, bool, int, float, datetime, date or time.
RawValue(kind, v) == [kind |-> kind, v |-> v]
RawStrings == {"", "---", "Yes", "N", "x"}
RawInts == {"0", "1", "-1", "5", "1000000000000"}
RawFloats == {"1.5", "0.12345678901234568", "1e+300"}
RawValues ==
    {RawValue("none", "None")}
    \cup {RawValue("str", v) : v \in RawStrings}
    \cup {RawValue("bool", v) : v \in {"True", "False"}}
    \cup {RawValue("int", v) : v \in RawInts}
    \cup {RawValue("float", v) : v \in RawFloats}

ColumnTypes == {"numberType.DATE_TIME", "numberType.DATE", "numberType.TIME",
                "numberType", "stringValue", "boolValue", "unsupportedValue"}

\* Config.__init__, line 78: the default of null_values
DefaultNullValues == {"---"}

Null == [kind |-> "null", v |-> ""]
Unbound == [kind |-> "unbound", v |-> ""]
Str(value) == [kind |-> "str", v |-> value.v]

\* isinstance(value, int): bool is a subclass of int
IsInt(value) == value.kind \in {"int", "bool"}
IsNumber(value) == value.kind \in {"int", "bool", "float"}
\* the number a bool or an int stands for, as int() gives it
IntOf(value) == IF value.kind = "bool" THEN (IF value.v = "True" THEN "1" ELSE "0") ELSE value.v

\* datetime and timedelta cannot hold the instant: OverflowError
\* (utils.py, lines 25-27; streams.py, lines 390-392)
OutOfDateRange(value) == value.v \in {"1000000000000", "1e+300"}

\* excel_to_dttm_str, utils.py lines 17-30
excel_to_dttm_str(value) == "dttm(" \o IntOf(value) \o ")"

\* str(value)[::-1].find('.') > 15, line 406-407
MoreThan15Decimals(value) == value.v = "0.12345678901234568"
\* round(value, 15), line 410
Round15(value) == IF value.v = "0.12345678901234568" THEN "0.123456789012346" ELSE value.v

\* value.lower(), lines 437-439
Lower(v) == IF v = "Yes" THEN "yes" ELSE IF v = "N" THEN "n" ELSE v

\* lines 363-461 for one cell: the value col_val holds afterwards, or the
\* exception raised; col_val is what the variable held before
coerce(col_type, value, col_val) ==
    IF value.kind = "none" \/ (value.kind = "str" /\ value.v = "")
    THEN [val |-> Null, err |-> "none"]
    ELSE IF col_type = "numberType.DATE_TIME"
    THEN IF IsNumber(value)
         THEN IF OutOfDateRange(value) THEN [val |-> col_val, err |-> "OverflowError"]
              ELSE [val |-> [kind |-> "datetime", v |-> excel_to_dttm_str(value)], err |-> "none"]
         ELSE [val |-> Str(value), err |-> "none"]
    ELSE IF col_type = "numberType.DATE"
    THEN IF IsNumber(value)
         THEN IF OutOfDateRange(value) THEN [val |-> col_val, err |-> "OverflowError"]
              ELSE [val |-> [kind |-> "date", v |-> excel_to_dttm_str(value)], err |-> "none"]
         ELSE [val |-> Str(value), err |-> "none"]
    ELSE IF col_type = "numberType.TIME"
    THEN IF IsNumber(value)
         THEN IF OutOfDateRange(value) THEN [val |-> col_val, err |-> "OverflowError"]
              ELSE [val |-> [kind |-> "time", v |-> "timedelta(" \o IntOf(value) \o ")"], err |-> "none"]
         ELSE [val |-> Str(value), err |-> "none"]
    ELSE IF col_type = "numberType"
    THEN IF IsInt(value) THEN [val |-> [kind |-> "int", v |-> IntOf(value)], err |-> "none"]
         ELSE IF value.kind = "float"
         THEN IF MoreThan15Decimals(value)
              THEN [val |-> [kind |-> "float", v |-> Round15(value)], err |-> "none"]
              ELSE [val |-> [kind |-> "float", v |-> value.v], err |-> "none"]
         ELSE [val |-> Str(value), err |-> "none"]
    ELSE IF col_type = "stringValue"
    THEN [val |-> Str(value), err |-> "none"]
    ELSE IF col_type = "boolValue"
    THEN IF value.kind = "bool" THEN [val |-> [kind |-> "bool", v |-> value.v], err |-> "none"]
         ELSE IF value.kind = "str"
         THEN IF Lower(value.v) \in {"true", "t", "yes", "y"}
              THEN [val |-> [kind |-> "bool", v |-> "True"], err |-> "none"]
              ELSE IF Lower(value.v) \in {"false", "f", "no", "n"}
              THEN [val |-> [kind |-> "bool", v |-> "False"], err |-> "none"]
              ELSE [val |-> Str(value), err |-> "none"]
         ELSE IF value.kind = "int"
         THEN IF value.v \in {"1", "-1"} THEN [val |-> [kind |-> "bool", v |-> "True"], err |-> "none"]
              ELSE IF value.v = "0" THEN [val |-> [kind |-> "bool", v |-> "False"], err |-> "none"]
              ELSE [val |-> Str(value), err |-> "none"]
         ELSE [val |-> col_val, err |-> "none"]
    ELSE [val |-> Str(value), err |-> "none"]

\* lines 355-463 for one cell: col_val is assigned, then read at line 462
\* (UnboundLocalError when no cell has assigned it yet)
coerce_cell(col_type, value, col_val) ==
    LET c == coerce(col_type, value, col_val)
    IN  IF c.err # "none" THEN c
        ELSE IF c.val = Unbound THEN [val |-> Unbound, err |-> "UnboundLocalError"]
        ELSE c

\* what col_val can hold when a cell is reached
PriorColVals == {Unbound, Null, [kind |-> "str", v |-> "x"], [kind |-> "bool", v |-> "True"]}

InitCoerce ==
    /\ SyncIdle
    /\ PageIdle
    /\ call_pc = "called"
    /\ arg \in { [col_type |-> t, value |-> x, col_val |-> c, null_values |-> DefaultNullValues] :
                    t \in ColumnTypes, x \in RawValues, c \in PriorColVals }
    /\ result = Unbound

\* the cell's value is stored in the record, line 462
CoerceCellReturns ==
    /\ call_pc = "called"
    /\ coerce_cell(arg.col_type, arg.value, arg.col_val).err = "none"
    /\ result' = coerce_cell(arg.col_type, arg.value, arg.col_val).val
    /\ call_pc' = "returned"
    /\ UNCHANGED arg
    /\ UNCHANGED <<syncVars, pageVars>>

\* the exception leaves transform_data
CoerceCellRaises ==
    /\ call_pc = "called"
    /\ coerce_cell(arg.col_type, arg.value, arg.col_val).err # "none"
    /\ result' = [kind |-> "raised", v |-> coerce_cell(arg.col_type, arg.value, arg.col_val).err]
    /\ call_pc' = "raised"
    /\ UNCHANGED arg
    /\ UNCHANGED <<syncVars, pageVars>>

NextCoerce ==
    \/ CoerceCellReturns
    \/ CoerceCellRaises

SpecCoerce == InitCoerce /\ [][NextCoerce]_vars

\* ------------------------- streams.py, SheetData.transform_data (a page)
MaxCols == 2
MaxCells == 2
MaxPageRows == 2

\* cols = sorted(columns, key=columnIndex), line 341
sorted_columns(column_list) ==
    [i \in 1..Len(column_list) |->
        CHOOSE c \in Range(column_list) :
            Cardinality({d \in Range(column_list) : d.columnIndex < c.columnIndex}) = i - 1]

\* lines 349-352: the record a non-empty row starts with
NewRecord(row_num) ==
    [k \in {"__sdc_load_time", "__sdc_spreadsheet_id", "__sdc_sheet_id", "__sdc_row"} |->
        IF k = "__sdc_row" THEN row_num
        ELSE IF k = "__sdc_load_time" THEN "extracted_time"
        ELSE IF k = "__sdc_spreadsheet_id" THEN "spreadsheet_id"
        ELSE "sheet_id"]

\* lines 355-463: the cells of one row from col_num on; col_val is the local
\* variable, which keeps its value from cell to cell and from row to row
RECURSIVE transform_row(_, _, _, _, _)
transform_row(cols, row, col_num, sheet_data_row_tf, col_val) ==
    IF col_num > Len(row)
    THEN [record |-> sheet_data_row_tf, col_val |-> col_val, err |-> "none"]
    ELSE IF col_num > Len(cols)
    THEN [record |-> sheet_data_row_tf, col_val |-> col_val, err |-> "IndexError"]
    ELSE LET c == coerce_cell(cols[col_num].columnType, row[col_num], col_val)
         IN  IF c.err # "none"
             THEN [record |-> sheet_data_row_tf, col_val |-> col_val, err |-> c.err]
             ELSE transform_row(cols, row, col_num + 1,
                                Put(sheet_data_row_tf, cols[col_num].columnName, c.val), c.val)

\* lines 344-466: the rows from index i on
RECURSIVE transform_rows(_, _, _, _, _, _)
transform_rows(cols, sheet_data_rows, i, row_num, sheet_data_tf, col_val) ==
    IF i > Len(sheet_data_rows)
    THEN [records |-> sheet_data_tf, err |-> "none"]
    ELSE IF sheet_data_rows[i] = << >>
    THEN transform_rows(cols, sheet_data_rows, i + 1, row_num + 1, sheet_data_tf, col_val)
    ELSE LET r == transform_row(cols, sheet_data_rows[i], 1, NewRecord(row_num), col_val)
         IN  IF r.err # "none"
             THEN [records |-> sheet_data_tf, err |-> r.err]
             ELSE transform_rows(cols, sheet_data_rows, i + 1, row_num + 1,
                                 Append(sheet_data_tf, r.record), r.col_val)

\* lines 337-467
transform_data(first_row, column_list, sheet_data_rows) ==
    transform_rows(sorted_columns(column_list), sheet_data_rows, 1, first_row, << >>, Unbound)

SampleValues == {RawValue("str", "x"), RawValue("str", ""), RawValue("float", "1.5"),
                 RawValue("int", "1000000000000")}
SampleTypes == {"stringValue", "boolValue", "numberType.DATE"}
SampleNames == <<"c1", "c2", "c3", "c4">>
SampleRows == UNION { [1..n -> SampleValues] : n \in 0..MaxCells }
SamplePages == UNION { [1..n -> SampleRows] : n \in 0..MaxPageRows }
\* the columns list as get_sheet_columns_schema builds it, in column order
SampleColumnLists ==
    UNION { { [i \in 1..n |-> [columnIndex |-> i, columnName |-> SampleNames[i],
                               columnType |-> t[i]]] : t \in [1..n -> SampleTypes] } :
            n \in 1..MaxCols }

InitTransform ==
    /\ SyncIdle
    /\ PageIdle
    /\ call_pc = "called"
    /\ arg \in { [from_row |-> f, columns |-> c, sheet_data_rows |-> p] :
                    f \in {1, MaxRow}, c \in SampleColumnLists, p \in SamplePages }
    /\ result = << >>

\* line 467: the list of records is returned
TransformDataReturns ==
    /\ call_pc = "called"
    /\ transform_data(arg.from_row, arg.columns, arg.sheet_data_rows).err = "none"
    /\ result' = transform_data(arg.from_row, arg.columns, arg.sheet_data_rows).records
    /\ call_pc' = "returned"
    /\ UNCHANGED arg
    /\ UNCHANGED <<syncVars, pageVars>>

\* an exception of a cell leaves transform_data: no list is returned
TransformDataRaises ==
    /\ call_pc = "called"
    /\ transform_data(arg.from_row, arg.columns, arg.sheet_data_rows).err # "none"
    /\ result' = << >>
    /\ call_pc' = "raised"
    /\ UNCHANGED arg
    /\ UNCHANGED <<syncVars, pageVars>>

NextTransform ==
    \/ TransformDataReturns
    \/ TransformDataRaises

SpecTransform == InitTransform /\ [][NextTransform]_vars

\* ---------------------------- streams.py, Sheet.get_sheet_columns_schema
\* A first-row cell is [effectiveValue, numberFormat]: the key of its
\* effectiveValue ("empty" for {}) and the type of its number format.
EffectiveValueKeys == {"empty", "stringValue", "boolValue", "numberValue", "errorValue"}
NumberFormatTypes == {"none", "DATE_TIME", "DATE", "TIME", "TEXT", "NUMBER", "PERCENT"}
FirstRowCells == [effectiveValue : EffectiveValueKeys, numberFormat : NumberFormatTypes]
\* rowData of the metadata response: no row, or the first row of the range
RowDatas == {<< >>} \cup { <<r>> : r \in UNION { [1..n -> FirstRowCells] : n \in 0..MaxCells } }

InitSchema ==
    /\ SyncIdle
    /\ PageIdle
    /\ call_pc = "called"
    /\ arg \in [headers : HeaderLists, row_data : RowDatas]
    /\ result = "unset"

\* lines 131-134: return None, None
ColumnsSchemaReturnsNone ==
    /\ call_pc = "called"
    /\ get_sheet_columns_schema(arg.row_data = << >>) = "None"
    /\ result' = "None"
    /\ call_pc' = "returned"
    /\ UNCHANGED arg
    /\ UNCHANGED <<syncVars, pageVars>>

\* line 136: self.config.get_sheet_headers raises AttributeError
ColumnsSchemaRaises ==
    /\ call_pc = "called"
    /\ get_sheet_columns_schema(arg.row_data = << >>) = "AttributeError"
    /\ result' = "AttributeError"
    /\ call_pc' = "raised"
    /\ UNCHANGED arg
    /\ UNCHANGED <<syncVars, pageVars>>

NextSchema ==
    \/ ColumnsSchemaReturnsNone
    \/ ColumnsSchemaRaises

SpecSchema == InitSchema /\ [][NextSchema]_vars

\* -------------------------------- streams.py, Sheet.get_sheet_metadata
MaxCalls == 3

\* a process that calls get_sheet_metadata on Sheet objects of any title;
\* result is the list of the calls made: title, value returned, fetch issued
InitCache ==
    /\ SyncIdle
    /\ ppc = "idle"
    /\ cfg_first_row = 1 /\ cfg_last_row = 0 /\ cfg_batch_size = 0
    /\ sheet_max_row \in 1..MaxRow /\ row_data_empty = FALSE
    /\ sheet_metadata_cache = EmptyDict
    /\ last_row_index = 0 /\ batch_size = 0 /\ from_row = 0 /\ to_row = 0
    /\ columns = "unset" /\ windows = << >> /\ meta_fetches = << >>
    /\ call_pc = "running" /\ arg = "" /\ result = << >>

\* lines 102-124, the fetch (if any) answered
GetSheetMetadata ==
    /\ call_pc = "running"
    /\ Len(result) < MaxCalls
    /\ \E title \in SheetTitles :
        LET m == get_sheet_metadata(sheet_metadata_cache, title, SheetsResponse(title, sheet_max_row))
        IN  /\ arg' = title
            /\ sheet_metadata_cache' = m.cache
            /\ meta_fetches' = IF m.fetched THEN Append(meta_fetches, title) ELSE meta_fetches
            /\ result' = Append(result, [title |-> title, sheet_metadata |-> m.sheet_metadata,
                                         fetched |-> m.fetched])
    /\ UNCHANGED call_pc
    /\ UNCHANGED <<ppc, cfg_first_row, cfg_last_row, cfg_batch_size, sheet_max_row,
                   row_data_empty, last_row_index, batch_size, from_row, to_row,
                   columns, windows>>
    /\ UNCHANGED syncVars

\* lines 116-118: get_data raises; no caller catches it, the process ends
GetSheetMetadataFetchFails ==
    /\ call_pc = "running"
    /\ Len(result) < MaxCalls
    /\ \E title \in SheetTitles :
        /\ ~Has(sheet_metadata_cache, title)
        /\ arg' = title
        /\ meta_fetches' = Append(meta_fetches, title)
    /\ call_pc' = "raised"
    /\ UNCHANGED result
    /\ UNCHANGED <<ppc, cfg_first_row, cfg_last_row, cfg_batch_size, sheet_max_row,
                   row_data_empty, sheet_metadata_cache, last_row_index, batch_size,
                   from_row, to_row, columns, windows>>
    /\ UNCHANGED syncVars

\* the spreadsheet is edited between two calls: its grid gets another size
SpreadsheetEdited ==
    /\ call_pc = "running"
    /\ \E n \in 1..MaxRow :
        /\ n # sheet_max_row
        /\ sheet_max_row' = n
    /\ UNCHANGED <<ppc, cfg_first_row, cfg_last_row, cfg_batch_size,
                   row_data_empty, sheet_metadata_cache, last_row_index, batch_size,
                   from_row, to_row, columns, windows, meta_fetches>>
    /\ UNCHANGED syncVars
    /\ UNCHANGED callVars

NextCache ==
    \/ GetSheetMetadata
    \/ GetSheetMetadataFetchFails
    \/ SpreadsheetEdited

SpecCache == InitCache /\ [][NextCache]_vars

\* ------------- streams.py, Sheet.get_sheet_columns_schema (the column loop)
\* lines 178-194: the value of column_effective_value_type after the cell's
\* effectiveValue was read; the variable is a local that lives through the
\* loop, "unbound" before its first assignment
effective_value_type(cell, before) ==
    IF cell.effectiveValue = "empty" THEN "stringValue"
    ELSE IF cell.effectiveValue \in {"numberValue", "stringValue", "boolValue"}
    THEN cell.effectiveValue
    ELSE before

\* lines 210-254: column_gs_type
column_gs_type(cell, column_effective_value_type) ==
    IF cell.effectiveValue = "empty" THEN "stringValue"
    ELSE IF column_effective_value_type = "stringValue" THEN "stringValue"
    ELSE IF column_effective_value_type = "boolValue" THEN "boolValue"
    ELSE IF column_effective_value_type = "numberValue"
    THEN IF cell.numberFormat = "DATE_TIME" THEN "numberType.DATE_TIME"
         ELSE IF cell.numberFormat = "DATE" THEN "numberType.DATE"
         ELSE IF cell.numberFormat = "TIME" THEN "numberType.TIME"
         ELSE IF cell.numberFormat = "TEXT" THEN "stringValue"
         ELSE "numberType"
    ELSE "unsupportedValue"

\* lines 171-271 for one header: the column appended, the local afterwards,
\* or the exception raised (line 191; line 213 reading the unbound local)
resolve_column(header, index, cell, before) ==
    IF cell.effectiveValue \in {"errorType", "formulaType"}
    THEN [err |-> "Exception", column_effective_value_type |-> before, column |-> << >>]
    ELSE IF cell.effectiveValue # "empty" /\ effective_value_type(cell, before) = "unbound"
    THEN [err |-> "UnboundLocalError", column_effective_value_type |-> before, column |-> << >>]
    ELSE [err |-> "none",
          column_effective_value_type |-> effective_value_type(cell, before),
          column |-> [columnIndex |-> index, columnName |-> header,
                      columnType |-> column_gs_type(cell, effective_value_type(cell, before))]]

\* lines 140-141: the first row padded to the number of headers
pad_first_row(headers, first_row) ==
    [i \in 1..(IF Len(headers) > Len(first_row) THEN Len(headers) ELSE Len(first_row)) |->
        IF i <= Len(first_row) THEN first_row[i]
        ELSE [effectiveValue |-> "empty", numberFormat |-> "none"]]

\* lines 171-271: the headers from index i on
RECURSIVE columns_loop(_, _, _, _, _)
columns_loop(headers, first_row, i, column_list, before) ==
    IF i > Len(headers)
    THEN [err |-> "none", columns |-> column_list]
    ELSE LET r == resolve_column(headers[i], i, first_row[i], before)
         IN  IF r.err # "none"
             THEN [err |-> r.err, columns |-> column_list]
             ELSE columns_loop(headers, first_row, i + 1, Append(column_list, r.column),
                               r.column_effective_value_type)

\* lines 137-275, for the list `headers` of line 136 and a range that starts
\* at column A (line 166: column_index starts at 1)
sheet_columns(headers, first_row) ==
    columns_loop(headers, pad_first_row(headers, first_row), 1, << >>, "unbound")

LoopCells ==
    { [effectiveValue |-> "empty", numberFormat |-> "none"],
      [effectiveValue |-> "stringValue", numberFormat |-> "none"],
      [effectiveValue |-> "boolValue", numberFormat |-> "none"],
      [effectiveValue |-> "numberValue", numberFormat |-> "DATE"],
      [effectiveValue |-> "numberValue", numberFormat |-> "PERCENT"],
      [effectiveValue |-> "errorValue", numberFormat |-> "none"],
      [effectiveValue |-> "errorType", numberFormat |-> "none"] }
LoopRows == UNION { [1..n -> LoopCells] : n \in 0..MaxCells }
LoopHeaders == { [i \in 1..n |-> SampleNames[i]] : n \in 1..MaxHeaders }

\* the loop applied to two first rows of one sheet configuration
InitColumnLoop ==
    /\ SyncIdle
    /\ PageIdle
    /\ call_pc = "called"
    /\ arg \in [headers : LoopHeaders, first_row : LoopRows, other_row : LoopRows]
    /\ result = << >>

\* line 275 for both rows
ColumnLoopReturns ==
    /\ call_pc = "called"
    /\ sheet_columns(arg.headers, arg.first_row).err = "none"
    /\ sheet_columns(arg.headers, arg.other_row).err = "none"
    /\ result' = <<sheet_columns(arg.headers, arg.first_row).columns,
                   sheet_columns(arg.headers, arg.other_row).columns>>
    /\ call_pc' = "returned"
    /\ UNCHANGED arg
    /\ UNCHANGED <<syncVars, pageVars>>

\* the loop raises for one of the rows
ColumnLoopRaises ==
    /\ call_pc = "called"
    /\ \/ sheet_columns(arg.headers, arg.first_row).err # "none"
       \/ sheet_columns(arg.headers, arg.other_row).err # "none"
    /\ result' = << >>
    /\ call_pc' = "raised"
    /\ UNCHANGED arg
    /\ UNCHANGED <<syncVars, pageVars>>

NextColumnLoop ==
    \/ ColumnLoopReturns
    \/ ColumnLoopRaises

SpecColumnLoop == InitColumnLoop /\ [][NextColumnLoop]_vars

\* ================================================================== claims

NoTime == [t |-> -1, fmt |-> "absent"]
FileBookmark(st) == get_bookmark(st, "file_metadata", NoTime)
CurrentlySyncing(st) == Get(st, "currently_syncing", "absent")
\* the instant the run compares the file's modification time with
StoredMtime == strptime_to_utc(get_bookmark(state0, "file_metadata", start_date))
RunEnded == pc \in {"returned", "raised"}

\* C1: with batch_size >= 1, the first window fetched by SheetData.sync starts
\* at the first row, every later window starts one row after the previous
\* window's end, and every window ends at
\* min(last_row, from_row + batch_size - 1); for first row 2, last row 1000
\* and batch size 300 the first window is [2, 301].
C1_WindowSequence ==
    batch_size >= 1 =>
        \A i \in 1..Len(windows) :
            /\ windows[i].from = (IF i = 1 THEN cfg_first_row ELSE windows[i-1].to + 1)
            /\ windows[i].to = Min(last_row_index, windows[i].from + batch_size - 1)

\* C2: when the paging loop of SheetData.sync has finished, with
\* first row <= last row and batch_size >= 1, every row of the span lies in
\* exactly one fetched window.
C2_EveryRowFetchedOnce ==
    (ppc = "done" /\ cfg_first_row <= last_row_index /\ batch_size >= 1) =>
        \A r \in cfg_first_row..last_row_index :
            Cardinality({ i \in 1..Len(windows) :
                            windows[i].from <= r /\ r <= windows[i].to }) = 1

\* C3: when the paging loop of SheetData.sync stops, from_row > last_row.
C3_StopsPastLastRow ==
    ppc = "done" => from_row > last_row_index

\* C4: when the fetched modification time is not later than the stored
\* file_metadata bookmark (or start_date when none is stored), sync() goes no
\* further than the check of line 163: nothing but STATE messages is written,
\* currently_syncing keeps the value it had at the start in `state` and in
\* every state written, and the only transport call is the file metadata fetch.
C4_ShortCircuitNoSheetSync ==
    (file_mtime # -1 /\ file_mtime <= StoredMtime) =>
        /\ pc \in {"check", "returned"}
        /\ \A m \in Range(out) :
               /\ m.type = "STATE"
               /\ CurrentlySyncing(m.value) = CurrentlySyncing(state0)
        /\ CurrentlySyncing(state) = CurrentlySyncing(state0)
        /\ fetches = <<"files">>
        /\ meta_fetches = << >> /\ windows = << >>

\* C4 witness: a run that ended at line 166 with file_metadata selected
C4_Witness ==
    /\ pc = "returned" /\ branch = "short"
    /\ "file_metadata" \in selected_streams
    /\ Len(out) = 1

\* C5: in the short-circuit branch with a stored file_metadata bookmark, the
\* state written is the state read at the start: same bookmark, same other
\* entries.
C5_BookmarkRewrittenUnchanged ==
    (branch = "short" /\ FileBookmark(state0) # NoTime) =>
        /\ Len(out) = 1
        /\ out[1].value = state0

\* C8: a run whose file is newer than the bookmark ends by returning, with
\* every configured sheet synced once, in configuration order.
C8_EverySheetSynced ==
    (branch = "full" /\ RunEnded) => (pc = "returned" /\ synced = sheets)

\* C9: in a run that does not short-circuit, as long as not every configured
\* sheet has completed, the file_metadata bookmark in `state` and in every
\* state written is the one the run started with; once it differs, every sheet
\* has completed and it is the fetched modification time.
C9_FileBookmarkAfterAllSheets ==
    branch = "full" =>
        /\ synced # sheets =>
              /\ FileBookmark(state) = FileBookmark(state0)
              /\ \A m \in Range(out) :
                     m.type = "STATE" => FileBookmark(m.value) = FileBookmark(state0)
        /\ FileBookmark(state) # FileBookmark(state0) =>
              /\ synced = sheets
              /\ FileBookmark(state) = strftime(file_mtime)

\* C9 witness: a run that stopped in the sheet loop after writing states,
\* started from a state that holds a file_metadata bookmark
C9_Witness ==
    /\ branch = "full" /\ pc = "raised"
    /\ synced # sheets
    /\ FileBookmark(state0) # NoTime
    /\ Len(out) = 4

\* C11: col_num_to_string(col_string_to_num(s)) = s for every string s of one,
\* two or three upper-case letters.
C11_ColumnRoundTrip ==
    call_pc = "returned" => result.string = arg

\* the 1-based bijective base-26 index of a column string
RECURSIVE ColumnIndex(_)
ColumnIndex(col) ==
    IF col = << >> THEN 0
    ELSE 26 * ColumnIndex(SubSeq(col, 1, Len(col) - 1)) + (col[Len(col)] - 64)

\* the columns of the spreadsheet from the first to the last column of a range
ColumnSpan(data) == ColumnIndex(data.last) - ColumnIndex(data.first) + 1

\* C12: when check_config accepts, every sheet declares as many headers as
\* there are spreadsheet columns from the first to the last column of its
\* range.
C12_HeaderCountIsColumnSpan ==
    call_pc = "returned" =>
        \A i \in 1..Len(arg.sheets) :
            Len(arg.sheets[i].headers) = ColumnSpan(arg.sheets[i].data)

\* C14: whatever the column type, a raw value that equals one of the
\* configured null values is stored as null.
C14_NullValuesBecomeNull ==
    (call_pc = "returned" /\ arg.value.kind = "str" /\ arg.value.v \in arg.null_values)
        => result = Null

\* C18: for every column type and every raw value that is not null, the
\* coercion stores a value for the cell, a typed one or the string form of the
\* raw value, and does not raise.
C18_CoercionNeverRaises ==
    (call_pc # "called" /\ arg.value.kind # "none" /\ arg.value.v # "") =>
        /\ call_pc = "returned"
        /\ \/ result = Str(arg.value)
           \/ result.kind \in {"bool", "int", "float", "datetime", "date", "time"}

\* the offsets (from 0) of the page's rows that carry at least one cell
NonEmptyOffsets(sheet_data_rows) ==
    {k \in 0..(Len(sheet_data_rows) - 1) : sheet_data_rows[k + 1] # << >>}

\* C13: for every page and every from_row, transform_data returns one record
\* per row that has at least one cell and none for an empty row, in the order
\* of the rows, and the record of the row at offset k has __sdc_row =
\* from_row + k.
C13_OneRecordPerNonEmptyRow ==
    call_pc # "called" =>
        /\ call_pc = "returned"
        /\ Len(result) = Cardinality(NonEmptyOffsets(arg.sheet_data_rows))
        /\ \A j \in 1..Len(result) :
            \E k \in NonEmptyOffsets(arg.sheet_data_rows) :
                /\ Cardinality({m \in NonEmptyOffsets(arg.sheet_data_rows) : m < k}) = j - 1
                /\ result[j]["__sdc_row"] = arg.from_row + k

\* C15: every record returned by transform_data has an entry for every
\* declared column; a column whose cell the row does not carry is present
\* with value null.
C15_MissingTrailingCellsAreNull ==
    call_pc = "returned" =>
        \A j \in 1..Len(result) : \A i \in 1..Len(arg.columns) :
            /\ Has(result[j], arg.columns[i].columnName)
            /\ \E k \in NonEmptyOffsets(arg.sheet_data_rows) :
                /\ Cardinality({m \in NonEmptyOffsets(arg.sheet_data_rows) : m < k}) = j - 1
                /\ (i > Len(arg.sheet_data_rows[k + 1])
                        => Get(result[j], arg.columns[i].columnName, Unbound) = Null)

\* the first-row cell of column i, an empty cell when the row is shorter
PaddedCell(first_row, i) ==
    IF i <= Len(first_row) THEN first_row[i]
    ELSE [effectiveValue |-> "empty", numberFormat |-> "none"]

\* the table of the claim
TableType(cell) ==
    IF cell.effectiveValue \in {"empty", "stringValue"} THEN "string"
    ELSE IF cell.effectiveValue = "boolValue" THEN "boolean"
    ELSE IF cell.numberFormat = "DATE_TIME" THEN "date-time"
    ELSE IF cell.numberFormat = "DATE" THEN "date"
    ELSE IF cell.numberFormat = "TIME" THEN "time"
    ELSE IF cell.numberFormat = "TEXT" THEN "string"
    ELSE "number"

\* C16: for a sheet with a first row whose cells are values (no error),
\* get_sheet_columns_schema returns one column per declared header, each
\* resolved from its first-row cell by the table, a missing trailing cell
\* counting as empty.
C16_ColumnsResolvedByTable ==
    (/\ call_pc # "called"
     /\ arg.row_data # << >>
     /\ \A i \in 1..Len(arg.headers) :
            PaddedCell(arg.row_data[1], i).effectiveValue # "errorValue") =>
        /\ call_pc = "returned"
        /\ Len(result) = Len(arg.headers)
        /\ \A i \in 1..Len(arg.headers) :
            /\ result[i].columnName = arg.headers[i]
            /\ result[i].type = TableType(PaddedCell(arg.row_data[1], i))

\* the number of metadata fetches issued for a title
FetchCount(title) == Cardinality({i \in 1..Len(meta_fetches) : meta_fetches[i] = title})

\* C20: in one process at most one metadata fetch is issued per title; the
\* first call for a title fetches, every later call for it returns what the
\* first one stored without a fetch, and a call returns the metadata of its
\* own title only.
C20_OneMetadataFetchPerTitle ==
    /\ \A title \in SheetTitles : FetchCount(title) <= 1
    /\ \A j \in 1..Len(result) :
        /\ result[j].sheet_metadata.title = result[j].title
        /\ result[j].fetched <=> (\A i \in 1..(j - 1) : result[i].title # result[j].title)
        /\ \A i \in 1..(j - 1) :
            result[i].title = result[j].title
                => result[j].sheet_metadata = result[i].sheet_metadata

\* C20 witness: a later call for a title got the stored metadata without a
\* fetch although the spreadsheet has changed since, after a call for the
\* other title
C20_Witness ==
    /\ Len(result) = 3
    /\ result[1].title = result[3].title
    /\ result[2].title # result[1].title
    /\ ~result[3].fetched
    /\ result[3].sheet_metadata.rowCount # sheet_max_row

\* C21: with first row >= 1 and batch_size >= 1, every window fetched by
\* SheetData.sync lies inside the configured span and is not empty:
\* first row <= from_row <= to_row <= last_row.
C21_WindowsInsideSpan ==
    (cfg_first_row >= 1 /\ batch_size >= 1) =>
        \A i \in 1..Len(windows) :
            /\ cfg_first_row <= windows[i].from
            /\ windows[i].from <= windows[i].to
            /\ windows[i].to <= last_row_index

RowOfRecord(record) == arg.sheet_data_rows[record["__sdc_row"] - arg.from_row + 1]

\* C23: the value transform_data stores for a cell depends on the cell's raw
\* value and its column's type only: two rows of a page that agree on the raw
\* value of column i get the same value for column i, whatever the cells
\* before it or the rows before it hold.
C23_CellValueFromOwnCellOnly ==
    call_pc = "returned" =>
        \A j1 \in 1..Len(result) : \A j2 \in 1..Len(result) : \A i \in 1..Len(arg.columns) :
            (/\ i <= Len(RowOfRecord(result[j1]))
             /\ i <= Len(RowOfRecord(result[j2]))
             /\ RowOfRecord(result[j1])[i] = RowOfRecord(result[j2])[i])
                => result[j1][arg.columns[i].columnName] = result[j2][arg.columns[i].columnName]

\* C24: when the metadata answer has no rowData, get_sheet_columns_schema
\* returns no columns and SheetData.sync finishes without raising, for every
\* first row, last row and batch_size.
C24_EmptySheetSkipped ==
    row_data_empty =>
        /\ ppc \in {"loop", "transform", "done"} => columns = "None"
        /\ ppc # "raised"

====
